---- MODULE Spec2Model ----
(***************************************************************************)
(* Model of custom_components/humidifier_template/humidifier.py: the       *)
(* TemplateHumidifier entity.  The device state, the six template-update   *)
(* callbacks, the restoration step of async_added_to_hass and the four     *)
(* command coroutines are translated from the Python source.               *)
(*                                                                         *)
(* Python values are tagged records [t |-> type, v |-> payload]; a str is  *)
(* the sequence of its characters, so lower(), int() and indexing are      *)
(* computed on the characters.                                             *)
(***************************************************************************)
EXTENDS Integers, Sequences, FiniteSets, TLC

VARIABLES config, dev, phase, subscribed, task, raised

vars == <<config, dev, phase, subscribed, task, raised>>

(***************************************************************************)
(* Python values                                                           *)
(***************************************************************************)
None == [t |-> "none", v |-> 0]
BoolV(b) == [t |-> "bool", v |-> b]
IntV(n) == [t |-> "int", v |-> n]
StrV(s) == [t |-> "str", v |-> s]
ListV(l) == [t |-> "list", v |-> l]
TemplateError == [t |-> "err", v |-> 0]

\* String literals of the source, as character sequences.
STATE_UNKNOWN == StrV(<<"u", "n", "k", "n", "o", "w", "n">>)
STATE_UNAVAILABLE == StrV(<<"u", "n", "a", "v", "a", "i", "l", "a", "b", "l", "e">>)
STATE_ON == StrV(<<"o", "n">>)
STATE_OFF == StrV(<<"o", "f", "f">>)
MODE_AUTO == StrV(<<"a", "u", "t", "o">>)
MODE_AWAY == StrV(<<"a", "w", "a", "y">>)
MODE_NORMAL == StrV(<<"n", "o", "r", "m", "a", "l">>)
DEHUMIDIFIER_TYPE == "dehumidifier"
HUMIDIFIER_TYPE == "humidifier"
DEFAULT_TYPE == DEHUMIDIFIER_TYPE
DEFAULT_HUMIDITY == 50
DEFAULT_SWITCH_STATE == STATE_OFF
MIN_HUMIDITY == 40
MAX_HUMIDITY == 80
FAN_DOMAIN == "fan"
SWITCH_DOMAIN == "switch"
SERVICE_TURN_ON == "turn_on"
SERVICE_TURN_OFF == "turn_off"
ATTR_MODE == "mode"
ATTR_HUMIDITY == "humidity"
ATTR_CURRENT_HUMIDITY == "current_humidity"
FEATURE_MODES == "MODES"
FEATURE_NONE == "0"

\* Python truthiness (bool(x)).
Truthy(x) ==
    CASE x.t = "none" -> FALSE
      [] x.t = "bool" -> x.v
      [] x.t = "int" -> x.v # 0
      [] x.t = "str" -> x.v # <<>>
      [] x.t = "list" -> x.v # <<>>
      [] OTHER -> TRUE

\* The test against STATE_UNKNOWN alone.
IsSentinelUnknownOnly(x) == x.t = "str" /\ x.v = STATE_UNKNOWN.v

\* x in (STATE_UNKNOWN, STATE_UNAVAILABLE): equality with one of two strs.
IsSentinel(x) == x.t = "str" /\ (x.v = STATE_UNKNOWN.v \/ x.v = STATE_UNAVAILABLE.v)

\* str.lower(), on the letters.
UpperLetters == <<"A", "B", "C", "D", "E", "F", "G", "H", "I", "J", "K", "L", "M",
                  "N", "O", "P", "Q", "R", "S", "T", "U", "V", "W", "X", "Y", "Z">>
LowerLetters == <<"a", "b", "c", "d", "e", "f", "g", "h", "i", "j", "k", "l", "m",
                  "n", "o", "p", "q", "r", "s", "t", "u", "v", "w", "x", "y", "z">>
LowerChar(c) ==
    IF \E i \in 1..Len(UpperLetters) : UpperLetters[i] = c
    THEN LowerLetters[CHOOSE i \in 1..Len(UpperLetters) : UpperLetters[i] = c]
    ELSE c
Lower(s) == [i \in 1..Len(s) |-> LowerChar(s[i])]

\* int(): the digits of a str, with surrounding blanks and a sign.
Digits == <<"0", "1", "2", "3", "4", "5", "6", "7", "8", "9">>
IsDigit(c) == \E i \in 1..Len(Digits) : Digits[i] = c
DigitVal(c) == (CHOOSE i \in 1..Len(Digits) : Digits[i] = c) - 1
RECURSIVE LStrip(_)
LStrip(s) == IF s # <<>> /\ Head(s) = " " THEN LStrip(Tail(s)) ELSE s
RECURSIVE RStrip(_)
RStrip(s) == IF s # <<>> /\ s[Len(s)] = " " THEN RStrip(SubSeq(s, 1, Len(s) - 1)) ELSE s
Strip(s) == RStrip(LStrip(s))
RECURSIVE DigitsVal(_)
DigitsVal(s) == IF s = <<>> THEN 0 ELSE 10 * DigitsVal(SubSeq(s, 1, Len(s) - 1)) + DigitVal(s[Len(s)])
AllDigits(s) == s # <<>> /\ \A i \in 1..Len(s) : IsDigit(s[i])
\* Result of int(x): [exc |-> "none", v |-> n] or the exception raised.
PyInt(x) ==
    CASE x.t = "bool" -> [exc |-> "none", v |-> IF x.v THEN 1 ELSE 0]
      [] x.t = "int" -> [exc |-> "none", v |-> x.v]
      [] x.t = "str" ->
            LET s == Strip(x.v)
                signed == s # <<>> /\ Head(s) \in {"+", "-"}
                body == IF signed THEN Tail(s) ELSE s
            IN IF AllDigits(body)
               THEN [exc |-> "none",
                     v |-> IF signed /\ Head(s) = "-" THEN 0 - DigitsVal(body) ELSE DigitsVal(body)]
               ELSE [exc |-> "ValueError", v |-> 0]
      [] OTHER -> [exc |-> "TypeError", v |-> 0]

\* Result of x[0]: [exc |-> "none", v |-> element] or the exception raised.
PyIndex0(x) ==
    CASE x.t = "str" -> IF x.v = <<>> THEN [exc |-> "IndexError", v |-> None]
                        ELSE [exc |-> "none", v |-> StrV(<<x.v[1]>>)]
      [] x.t = "list" -> IF x.v = <<>> THEN [exc |-> "IndexError", v |-> None]
                         ELSE [exc |-> "none", v |-> x.v[1]]
      [] OTHER -> [exc |-> "TypeError", v |-> None]

\* needle in haystack, for strs.
Contains(hay, needle) ==
    \E i \in 0..(Len(hay) - Len(needle)) : SubSeq(hay, i + 1, i + Len(needle)) = needle

(***************************************************************************)
(* Configuration and construction                                          *)
(***************************************************************************)
TemplateNames == {"state", "mode", "mode_list", "current_humidity", "target_humidity", "action"}

\* HumidifierAction, and None for the attribute before any action update.
ACTION_UNSET == "UNSET"
ACTION_OFF == "OFF"
ACTION_HUMIDIFYING == "HUMIDIFYING"
ACTION_DRYING == "DRYING"
ACTION_IDLE == "IDLE"
DEVICE_CLASS_HUMIDIFIER == "HUMIDIFIER"
DEVICE_CLASS_DEHUMIDIFIER == "DEHUMIDIFIER"

\* The default of CONF_MODE_LIST in PLATFORM_SCHEMA.
DefaultModes == ListV(<<MODE_AUTO, MODE_AWAY, MODE_NORMAL>>)

\* TemplateHumidifier.__init__: the device state built from a validated config.
\* None stands for an attribute __init__ does not assign (the mode attributes
\* of a config with an empty mode list, _target_temp, _current_temp).
InitDev(c) ==
    [state |-> BoolV(DEFAULT_SWITCH_STATE = STATE_ON),
     attr_device_class |-> IF c.type = HUMIDIFIER_TYPE THEN DEVICE_CLASS_HUMIDIFIER
                           ELSE DEVICE_CLASS_DEHUMIDIFIER,
     current_humidity |-> IntV(DEFAULT_HUMIDITY),
     target_humidity |-> IntV(DEFAULT_HUMIDITY),
     attr_supported_features |-> IF Truthy(c.modes) THEN FEATURE_MODES ELSE FEATURE_NONE,
     attr_available_modes |-> IF Truthy(c.modes) THEN c.modes ELSE None,
     attr_mode |-> IF Truthy(c.modes) THEN MODE_NORMAL ELSE None,
     attr_action |-> ACTION_UNSET,
     target_temp |-> None,
     current_temp |-> None]

(***************************************************************************)
(* The template-update callbacks.  Each takes the device state and the raw *)
(* template result and gives [dev |-> the state it leaves, exc |-> the     *)
(* exception that escapes it, "none" when it returns].                     *)
(***************************************************************************)
\* try: ... except ValueError: log.  Every other exception escapes.
ExceptValueError(exc) == IF exc = "ValueError" THEN "none" ELSE exc

\* The comparison without lower(): "ON" and "True" are not recognised.
StateFromStrCaseSensitive(s) == s \in {<<"t", "r", "u", "e">>, STATE_ON.v}

\* state.lower() in ("true", STATE_ON)
StateFromStr(s) == Lower(s) \in {<<"t", "r", "u", "e">>, STATE_ON.v}

update_state(d, state) ==
    LET d0 == [d EXCEPT !.state = BoolV(FALSE)]
    IN IF IsSentinel(state) THEN [dev |-> d0, exc |-> "none"]
       ELSE CASE state.t = "err" -> [dev |-> [d0 EXCEPT !.state = None], exc |-> "none"]
              [] state.t = "bool" -> [dev |-> [d0 EXCEPT !.state = state], exc |-> "none"]
              [] state.t = "str" ->
                    [dev |-> [d0 EXCEPT !.state = BoolV(StateFromStr(state.v))], exc |-> "none"]
              [] OTHER -> [dev |-> [d0 EXCEPT !.state = BoolV(FALSE)], exc |-> "none"]

update_mode(d, mode) ==
    IF IsSentinel(mode) THEN [dev |-> d, exc |-> "none"]
    ELSE [dev |-> [d EXCEPT !.attr_mode = mode], exc |-> "none"]

\* The callback taking the first element before it stores the new list.
update_mode_list_stale_first(d, mode_list) ==
    IF IsSentinel(mode_list) THEN [dev |-> d, exc |-> "none"]
    ELSE LET first == PyIndex0(d.attr_available_modes)
             d1 == [d EXCEPT !.attr_supported_features = FEATURE_MODES]
         IN IF first.exc = "none"
            THEN [dev |-> [d1 EXCEPT !.attr_mode = first.v, !.attr_available_modes = mode_list],
                  exc |-> "none"]
            ELSE [dev |-> d1, exc |-> ExceptValueError(first.exc)]

update_mode_list(d, mode_list) ==
    IF IsSentinel(mode_list) THEN [dev |-> d, exc |-> "none"]
    ELSE LET d1 == [d EXCEPT !.attr_supported_features = FEATURE_MODES,
                             !.attr_available_modes = mode_list]
             first == PyIndex0(mode_list)
         IN IF first.exc = "none"
            THEN [dev |-> [d1 EXCEPT !.attr_mode = first.v], exc |-> "none"]
            ELSE [dev |-> d1, exc |-> ExceptValueError(first.exc)]

\* The current-humidity callback storing into the target attribute.
update_current_humidity_into_target(d, humidity) ==
    IF IsSentinel(humidity) THEN [dev |-> d, exc |-> "none"]
    ELSE LET n == PyInt(humidity)
         IN IF n.exc = "none"
            THEN [dev |-> [d EXCEPT !.target_humidity = IntV(n.v)], exc |-> "none"]
            ELSE [dev |-> d, exc |-> ExceptValueError(n.exc)]

update_current_humidity(d, humidity) ==
    IF IsSentinel(humidity) THEN [dev |-> d, exc |-> "none"]
    ELSE LET n == PyInt(humidity)
         IN IF n.exc = "none"
            THEN [dev |-> [d EXCEPT !.current_humidity = IntV(n.v)], exc |-> "none"]
            ELSE [dev |-> d, exc |-> ExceptValueError(n.exc)]

update_target_humidity(d, humidity) ==
    IF IsSentinel(humidity) THEN [dev |-> d, exc |-> "none"]
    ELSE LET n == PyInt(humidity)
         IN IF n.exc = "none"
            THEN [dev |-> [d EXCEPT !.target_humidity = IntV(n.v)], exc |-> "none"]
            ELSE [dev |-> d, exc |-> ExceptValueError(n.exc)]

\* The derivation without the dehumidifier branch.
DeriveActionInvertedType(c, d, action) ==
    IF ~Truthy(d.state) THEN ACTION_OFF
    ELSE IF action.t = "str" /\ action.v = <<"f", "a", "n">> THEN ACTION_IDLE
    ELSE IF c.type = DEHUMIDIFIER_TYPE THEN ACTION_HUMIDIFYING ELSE ACTION_DRYING

DeriveActionIgnoringType(c, d, action) ==
    IF ~Truthy(d.state) THEN ACTION_OFF
    ELSE IF action.t = "str" /\ action.v = <<"f", "a", "n">> THEN ACTION_IDLE
    ELSE ACTION_HUMIDIFYING

\* The action derived by _update_action for a non-sentinel result; c is self._config.
DeriveAction(c, d, action) ==
    IF ~Truthy(d.state) THEN ACTION_OFF
    ELSE LET a1 == ACTION_HUMIDIFYING
             a2 == IF c.type = DEHUMIDIFIER_TYPE THEN ACTION_DRYING ELSE a1
             a3 == IF action.t = "str" /\ action.v = <<"f", "a", "n">> THEN ACTION_IDLE ELSE a2
         IN a3

update_action(c, d, action) ==
    IF IsSentinel(action) THEN [dev |-> d, exc |-> "none"]
    ELSE [dev |-> [d EXCEPT !.attr_action = DeriveAction(c, d, action)], exc |-> "none"]

\* The callback add_template_attribute registers for each template.
Handler(h, c, d, v) ==
    CASE h = "state" -> update_state(d, v)
      [] h = "mode" -> update_mode(d, v)
      [] h = "mode_list" -> update_mode_list(d, v)
      [] h = "current_humidity" -> update_current_humidity(d, v)
      [] h = "target_humidity" -> update_target_humidity(d, v)
      [] h = "action" -> update_action(c, d, v)

(***************************************************************************)
(* Restoration (async_added_to_hass)                                       *)
(***************************************************************************)
\* previous_state.attributes.get(key, default)
AttrGet(attributes, key, default) ==
    IF key \in DOMAIN attributes THEN attributes[key] ELSE default

\* The block under "if previous_state is not None"; prev is None or a snapshot
\* [state |-> str, attributes |-> mapping].
RestoreState(d, prev) ==
    IF prev = None THEN d
    ELSE LET mode == AttrGet(prev.attributes, ATTR_MODE, MODE_NORMAL)
             humidity == AttrGet(prev.attributes, ATTR_HUMIDITY, IntV(DEFAULT_HUMIDITY))
             current == AttrGet(prev.attributes, ATTR_CURRENT_HUMIDITY, None)
             d1 == [d EXCEPT !.state = prev.state]
             d2 == IF Truthy(mode) THEN [d1 EXCEPT !.attr_mode = mode] ELSE d1
             d3 == IF Truthy(humidity) THEN [d2 EXCEPT !.target_temp = humidity] ELSE d2
             d4 == IF Truthy(current) THEN [d3 EXCEPT !.current_temp = current] ELSE d3
             d5 == IF Truthy(current) THEN [d4 EXCEPT !.current_humidity = current] ELSE d4
         IN d5

(***************************************************************************)
(* Inputs                                                                  *)
(***************************************************************************)
\* Raw template results: the sentinels, the error marker, booleans, strings
\* and sequences of strings.
RawValues ==
    {STATE_UNKNOWN, STATE_UNAVAILABLE, TemplateError, BoolV(TRUE), BoolV(FALSE),
     StrV(<<"O", "N">>), StrV(<<"T", "r", "u", "e">>), StrV(<<"f", "a", "n">>),
     StrV(<<"9", "5">>), ListV(<<>>), ListV(<<StrV(<<"b", "o", "o", "s", "t">>)>>)}

\* Persisted snapshots async_get_last_state may return (None: first start).
Snapshots ==
    {None,
     [state |-> STATE_OFF,
      attributes |-> [k \in {ATTR_MODE, ATTR_HUMIDITY, ATTR_CURRENT_HUMIDITY} |->
                        CASE k = ATTR_MODE -> MODE_AWAY
                          [] k = ATTR_HUMIDITY -> IntV(65)
                          [] k = ATTR_CURRENT_HUMIDITY -> IntV(45)]],
     [state |-> STATE_ON, attributes |-> [k \in {ATTR_HUMIDITY} |-> IntV(65)]]}

\* Arguments of the set_humidity and set_mode commands.
HumidityArgs == {IntV(65), IntV(90)}
ModeArgs == {MODE_AWAY, StrV(<<"b", "o", "o", "s", "t">>)}

\* Outcomes of an awaited service call or script run.
AwaitErrors == {"ServiceNotFound", "HomeAssistantError"}
AwaitResults == {"ok"} \cup AwaitErrors

\* Validated configurations (PLATFORM_SCHEMA): a config is the type, the
\* humidity bounds, the mode list, the set of configured templates, the
\* switch_id (None when absent) and whether each script is configured.
Config(type, modes, templates, switch_id, set_mode_action, set_target_humidity_action) ==
    [type |-> type, min_humidity |-> MIN_HUMIDITY, max_humidity |-> MAX_HUMIDITY,
     modes |-> modes, templates |-> templates, switch_id |-> switch_id,
     set_mode_action |-> set_mode_action,
     set_target_humidity_action |-> set_target_humidity_action]

SwitchHum == StrV(<<"s", "w", "i", "t", "c", "h", ".", "h", "u", "m">>)
FanBed == StrV(<<"f", "a", "n", ".", "b", "e", "d">>)
SwitchFanRelay == StrV(<<"s", "w", "i", "t", "c", "h", ".", "f", "a", "n", "_", "r">>)

\* The configurations explored: each template with the commands and the
\* collaborators it interacts with, both device types, every switch routing.
Configs ==
    {Config(DEHUMIDIFIER_TYPE, DefaultModes, {"state", "action"}, SwitchHum, FALSE, FALSE),
     Config(HUMIDIFIER_TYPE, DefaultModes, {"state", "action"}, SwitchFanRelay, FALSE, TRUE),
     Config(HUMIDIFIER_TYPE, DefaultModes, {"mode", "mode_list"}, None, TRUE, FALSE),
     Config(DEHUMIDIFIER_TYPE, ListV(<<>>), {"mode_list", "action"}, None, FALSE, FALSE),
     Config(DEHUMIDIFIER_TYPE, DefaultModes, {"current_humidity", "target_humidity"},
            FanBed, TRUE, TRUE)}

(***************************************************************************)
(* State machine                                                           *)
(***************************************************************************)
IdleTask == [op |-> "none", pc |-> "idle", calls |-> <<>>, writes |-> <<>>,
             result |-> "none"]

Init ==
    /\ config \in Configs
    /\ dev = InitDev(config)
    /\ phase = "constructed"
    /\ subscribed = {}
    /\ task = IdleTask
    /\ raised = "none"

\* async_added_to_hass up to the registrations: seed from the last state.
Restore(prev) ==
    /\ phase = "constructed"
    /\ dev' = RestoreState(dev, prev)
    /\ phase' = "restored"
    /\ raised' = "none"
    /\ UNCHANGED <<config, subscribed, task>>

\* The registrations made without waiting for the restoration.
RegisterTemplatesEarly ==
    /\ phase \in {"constructed", "restored"}
    /\ subscribed' = config.templates
    /\ phase' = IF phase = "restored" THEN "added" ELSE phase
    /\ raised' = "none"
    /\ UNCHANGED <<config, dev, task>>

\* async_added_to_hass, "register templates": one subscription per configured template.
RegisterTemplates ==
    /\ phase = "restored"
    /\ subscribed' = config.templates
    /\ phase' = "added"
    /\ raised' = "none"
    /\ UNCHANGED <<config, dev, task>>

\* The template subsystem delivers a result v to the callback of template h.
TemplateFires(h, v) ==
    /\ phase = "added"
    /\ h \in subscribed
    /\ LET r == Handler(h, config, dev, v)
       IN /\ dev' = r.dev
          /\ raised' = r.exc
    /\ UNCHANGED <<config, phase, subscribed, task>>

\* A command may start when no other command of the entity is in flight: the
\* model follows one command coroutine at a time, interleaved with the
\* template callbacks at its await.
CanStart == phase = "added" /\ task.pc \in {"idle", "done"}

\* The relay call routed by the domain prefix of the entity id.
ServiceCallByPrefix(switch_id, service) ==
    [kind |-> "service",
     domain |-> IF SubSeq(switch_id.v, 1, 3) = <<"f", "a", "n">> THEN FAN_DOMAIN ELSE SWITCH_DOMAIN,
     service |-> service,
     entity_id |-> switch_id]

\* The hass.services.async_call of turn_on / turn_off: fan domain when
\* "fan" in self._switch_id, switch domain otherwise.
ServiceCall(switch_id, service) ==
    [kind |-> "service",
     domain |-> IF Contains(switch_id.v, <<"f", "a", "n">>) THEN FAN_DOMAIN ELSE SWITCH_DOMAIN,
     service |-> service,
     entity_id |-> switch_id]

\* script.async_run(run_variables={var: val}, context=self._context)
ScriptRun(script, var, val) ==
    [kind |-> "script", script |-> script, var |-> var, val |-> val]

\* The command coroutine after its synchronous prefix: suspended on the
\* awaited calls, or finished when it awaits nothing.
Started(op, calls, writes) ==
    [op |-> op, pc |-> IF calls = <<>> THEN "done" ELSE "await",
     calls |-> calls, writes |-> writes,
     result |-> IF calls = <<>> THEN "ok" ELSE "none"]

\* async_turn_on
TurnOn ==
    /\ CanStart
    /\ dev' = [dev EXCEPT !.state = BoolV(TRUE)]
    /\ task' = Started("turn_on",
                       IF config.switch_id # None
                       THEN <<ServiceCall(config.switch_id, SERVICE_TURN_ON)>> ELSE <<>>,
                       <<>>)
    /\ raised' = "none"
    /\ UNCHANGED <<config, phase, subscribed>>

\* async_turn_off
TurnOff ==
    /\ CanStart
    /\ dev' = [dev EXCEPT !.state = BoolV(FALSE)]
    /\ task' = Started("turn_off",
                       IF config.switch_id # None
                       THEN <<ServiceCall(config.switch_id, SERVICE_TURN_OFF)>> ELSE <<>>,
                       <<>>)
    /\ raised' = "none"
    /\ UNCHANGED <<config, phase, subscribed>>

\* async_set_humidity
SetHumidity(humidity) ==
    /\ CanStart
    /\ dev' = [dev EXCEPT !.target_humidity = humidity]
    /\ task' = Started("set_humidity",
                       IF config.set_target_humidity_action
                       THEN <<ScriptRun("set_target_humidity", ATTR_HUMIDITY, humidity)>>
                       ELSE <<>>,
                       <<>>)
    /\ raised' = "none"
    /\ UNCHANGED <<config, phase, subscribed>>

\* self.async_write_ha_state() in async_set_mode: the publish, recorded by
\* the mode it makes visible.
WriteHaState(d) == [mode |-> d.attr_mode]

\* The command echo overwriting a templated mode.
ModeIsOptimisticAlways(c) == TRUE

\* "if self._mode_template is None": the command sets the mode itself.
ModeIsOptimistic(c) == "mode" \notin c.templates

\* The set-mode script run only on the optimistic path.
SetModeCallsWhenOptimistic(c, mode) ==
    IF c.set_mode_action /\ "mode" \notin c.templates
    THEN <<ScriptRun("set_mode", ATTR_MODE, mode)>> ELSE <<>>

\* "if self._set_mode_script is not None": the script run of async_set_mode.
SetModeCalls(c, mode) ==
    IF c.set_mode_action THEN <<ScriptRun("set_mode", ATTR_MODE, mode)>> ELSE <<>>

\* async_set_mode
SetMode(mode) ==
    /\ CanStart
    /\ LET optimistic == ModeIsOptimistic(config)
           d1 == IF optimistic THEN [dev EXCEPT !.attr_mode = mode] ELSE dev
       IN /\ dev' = d1
          /\ task' = Started("set_mode", SetModeCalls(config, mode),
                             IF optimistic THEN <<WriteHaState(d1)>> ELSE <<>>)
    /\ raised' = "none"
    /\ UNCHANGED <<config, phase, subscribed>>

\* The await wrapped in a handler that logs and drops the error.
PropagateSwallowed(r) == "none"

\* What leaves the command coroutine when its awaited call ends with r: the
\* await is in no try block, so an error of the call is the command's error.
Propagate(r) == IF r = "ok" THEN "none" ELSE r

\* The command writing its power state again when it resumes.
AwaitCompletesRewriting(r) ==
    /\ task.pc = "await"
    /\ task' = [task EXCEPT !.pc = "done", !.result = r]
    /\ raised' = Propagate(r)
    /\ dev' = CASE task.op = "turn_on" -> [dev EXCEPT !.state = BoolV(TRUE)]
                [] task.op = "turn_off" -> [dev EXCEPT !.state = BoolV(FALSE)]
                [] OTHER -> dev
    /\ UNCHANGED <<config, phase, subscribed>>

\* The awaited service call or script run ends, and the command with it.
AwaitCompletes(r) ==
    /\ task.pc = "await"
    /\ task' = [task EXCEPT !.pc = "done", !.result = r]
    /\ raised' = Propagate(r)
    /\ UNCHANGED <<config, dev, phase, subscribed>>

Next ==
    \/ \E prev \in Snapshots : Restore(prev)
    \/ RegisterTemplates
    \/ \E h \in TemplateNames, v \in RawValues : TemplateFires(h, v)
    \/ TurnOn
    \/ TurnOff
    \/ \E humidity \in HumidityArgs : SetHumidity(humidity)
    \/ \E mode \in ModeArgs : SetMode(mode)
    \/ \E r \in AwaitResults : AwaitCompletes(r)

Spec == Init /\ [][Next]_vars

(***************************************************************************)
(* Properties                                                              *)
(***************************************************************************)
Str70 == StrV(<<"7", "0">>)
EmptyList == ListV(<<>>)

\* C1: restoration precedence.  Restoring from a snapshot whose humidity
\* attribute is 65 leaves target_humidity at 65, and a target_humidity
\* template result "70" then sets it to 70.
C1_RestorationPrecedence ==
    [][/\ \A prev \in Snapshots \ {None} :
            (/\ Restore(prev)
             /\ ATTR_HUMIDITY \in DOMAIN prev.attributes
             /\ prev.attributes[ATTR_HUMIDITY] = IntV(65))
            => dev'.target_humidity = IntV(65)
       /\ update_target_humidity(dev, Str70).dev.target_humidity = IntV(70)]_vars

\* C2: in every reachable state, action OFF implies is_on is false.
C2_OffImpliesNotOn ==
    dev.attr_action = ACTION_OFF => dev.state = BoolV(FALSE)

\* The attribute a humidity handler owns.
HumidityAttr(h, d) == IF h = "current_humidity" THEN d.current_humidity ELSE d.target_humidity

\* C3: every template-update handler is total over the raw values: no
\* exception escapes it, and a humidity handler given a value int() rejects
\* keeps its attribute.
C3_HandlersTotal ==
    [][\A h \in TemplateNames, v \in RawValues :
          TemplateFires(h, v) =>
            /\ raised' = "none"
            /\ (h \in {"current_humidity", "target_humidity"} /\ PyInt(v).exc # "none")
                 => HumidityAttr(h, dev') = HumidityAttr(h, dev)]_vars

\* C4: the mode-list handler given an empty sequence does not raise, and
\* if it does not take the empty list it leaves available_modes as it was.
C4_EmptyModeList ==
    [][TemplateFires("mode_list", EmptyList) =>
          /\ raised' = "none"
          /\ \/ dev'.attr_available_modes = EmptyList
             \/ dev'.attr_available_modes = dev.attr_available_modes]_vars

\* The device state after handler h takes v, whatever it raises.
After(h, d, v) == Handler(h, config, d, v).dev

\* Firing h1 with v1 and h2 with v2 on d gives the same state in both orders.
Commute(h1, v1, h2, v2, d) == After(h2, After(h1, d, v1), v2) = After(h1, After(h2, d, v2), v1)

\* The entity is attached and only its templates have acted on it so far.
TemplatesOnly == phase = "added" /\ task.pc = "idle"

Dependent == {{"mode", "mode_list"}, {"state", "action"}}

ModeInAvailableModes(d) ==
    /\ d.attr_available_modes.t = "list"
    /\ \E i \in 1..Len(d.attr_available_modes.v) : d.attr_available_modes.v[i] = d.attr_mode

\* C6: whenever modes are supported, mode is a member of available_modes.
C6_ModeIsAvailable ==
    dev.attr_supported_features = FEATURE_MODES => ModeInAvailableModes(dev)

\* C7: target_humidity stays within the configured bounds.
C7_TargetWithinBounds ==
    /\ config.min_humidity <= dev.target_humidity.v
    /\ dev.target_humidity.v <= config.max_humidity

\* lower(s) is "true" or "on", on the strings the templates deliver.
LowerIsTrueOrOn(s) == Lower(s) = <<"t", "r", "u", "e">> \/ Lower(s) = <<"o", "n">>

\* The power state the state handler is to give for the raw value v.
ExpectedState(v) ==
    CASE v = STATE_UNKNOWN \/ v = STATE_UNAVAILABLE -> BoolV(FALSE)
      [] v.t = "err" -> None
      [] v.t = "bool" -> v
      [] v.t = "str" -> BoolV(LowerIsTrueOrOn(v.v))
      [] OTHER -> BoolV(FALSE)

\* C8: the state handler maps its raw input to is_on, whatever is_on was:
\* a boolean to itself, a string to whether its lower case is "true" or
\* "on", a sentinel to false, the error marker to None, anything else to
\* false.
C8_StateMapping ==
    [][\A v \in RawValues :
          TemplateFires("state", v) => (dev'.state = ExpectedState(v) /\ raised' = "none")]_vars

\* The state handler has taken the error marker.
C8_Witness == "state" \in subscribed /\ dev.state = None

Fan == StrV(<<"f", "a", "n">>)

\* C9: the action handler, on a non-sentinel input, gives OFF when is_on is
\* false; with is_on true, a dehumidifier gives IDLE for "fan" and DRYING
\* otherwise, and a humidifier gives HUMIDIFYING for an input other than
\* "fan".
C9_ActionDerivation ==
    [][\A v \in RawValues \ {STATE_UNKNOWN, STATE_UNAVAILABLE} :
          TemplateFires("action", v) =>
            /\ dev.state = BoolV(FALSE) => dev'.attr_action = ACTION_OFF
            /\ (dev.state = BoolV(TRUE) /\ dev.attr_device_class = DEVICE_CLASS_DEHUMIDIFIER)
                 => dev'.attr_action = IF v = Fan THEN ACTION_IDLE ELSE ACTION_DRYING
            /\ (dev.state = BoolV(TRUE) /\ dev.attr_device_class = DEVICE_CLASS_HUMIDIFIER
                   /\ v # Fan)
                 => dev'.attr_action = ACTION_HUMIDIFYING]_vars

\* A humidifier that is on has derived HUMIDIFYING.
C9_Witness ==
    /\ dev.attr_device_class = DEVICE_CLASS_HUMIDIFIER
    /\ dev.state = BoolV(TRUE)
    /\ dev.attr_action = ACTION_HUMIDIFYING

\* C10: turn_on sets is_on to true, and turn_off to false, in the step that
\* issues the service call; when the call then raises, the error leaves
\* the command unchanged and the device state is untouched.
C10_CommandOptimism ==
    [][/\ TurnOn => (dev'.state = BoolV(TRUE)
                      /\ (config.switch_id # None => task'.pc = "await"))
       /\ TurnOff => (dev'.state = BoolV(FALSE)
                       /\ (config.switch_id # None => task'.pc = "await"))
       /\ \A r \in AwaitErrors :
            (AwaitCompletes(r) /\ task.op \in {"turn_on", "turn_off"})
            => (raised' = r /\ dev' = dev)]_vars

\* turn_on ended with the error of its service call, is_on still true.
C10_Witness ==
    /\ task.op = "turn_on"
    /\ task.pc = "done"
    /\ task.result \in AwaitErrors
    /\ raised = task.result
    /\ dev.state = BoolV(TRUE)

\* C11: set_mode(m) with no mode template sets mode to m and publishes it in
\* the step that starts the command, before any script is awaited; with a
\* mode template it leaves the device state as it is and publishes nothing.
C11_SetModeOptimism ==
    [][/\ \A m \in ModeArgs :
            SetMode(m) =>
              IF "mode" \in config.templates
              THEN dev' = dev /\ task'.writes = <<>>
              ELSE /\ dev'.attr_mode = m
                   /\ task'.writes = <<[mode |-> m]>>
                   /\ config.set_mode_action => task'.pc = "await"
       /\ \A r \in AwaitResults :
            (AwaitCompletes(r) /\ task.op = "set_mode") => task'.writes = task.writes]_vars

\* set_mode("boost") without a mode template has published boost and is
\* suspended on its script.
C11_Witness ==
    /\ "mode" \notin config.templates
    /\ task.op = "set_mode"
    /\ task.pc = "await"
    /\ task.writes = <<[mode |-> StrV(<<"b", "o", "o", "s", "t">>)]>>

\* A step that starts a command.
CommandStarts ==
    \/ TurnOn
    \/ TurnOff
    \/ \E humidity \in HumidityArgs : SetHumidity(humidity)
    \/ \E mode \in ModeArgs : SetMode(mode)

\* C12: a command that changes the device state publishes the new state.
C12_CommandsPublish ==
    [][(CommandStarts /\ dev' # dev) => task'.writes # <<>>]_vars

Sentinels == {STATE_UNKNOWN, STATE_UNAVAILABLE}

\* C13: a sentinel result is a no-op for the mode, mode_list,
\* current_humidity, target_humidity and action handlers: no field of the
\* device state changes; the state handler alone reacts, forcing is_on to
\* false.
C13_SentinelNoOp ==
    [][\A h \in TemplateNames, v \in Sentinels :
          TemplateFires(h, v) =>
            /\ raised' = "none"
            /\ IF h = "state" THEN dev' = [dev EXCEPT !.state = BoolV(FALSE)]
               ELSE dev' = dev]_vars

\* The mode and mode_list handlers are subscribed and hold values that a
\* template set, which a sentinel result must keep.
C13_Witness ==
    /\ {"mode", "mode_list"} \subseteq subscribed
    /\ dev.attr_mode = Fan
    /\ dev.attr_available_modes = ListV(<<StrV(<<"b", "o", "o", "s", "t">>)>>)

\* C14: a template handler that took v without raising leaves the device
\* state unchanged when it takes v again.
C14_Idempotence ==
    \A h \in subscribed, v \in RawValues :
        LET once == Handler(h, config, dev, v)
        IN once.exc = "none" => Handler(h, config, once.dev, v) = once

\* The mode_list handler has replaced the default list and reset the mode.
C14_Witness ==
    /\ config.modes = DefaultModes
    /\ dev.attr_available_modes = ListV(<<StrV(<<"b", "o", "o", "s", "t">>)>>)
    /\ dev.attr_mode = StrV(<<"b", "o", "o", "s", "t">>)
    /\ raised = "none"

\* C15: restoration seeds the power state as a boolean: from the persisted
\* string "off" is_on is false and "on" gives true, so that an action
\* template firing with a non-sentinel value on a device restored as off
\* derives the action OFF.
C15_RestoredPowerState ==
    [][/\ \A prev \in Snapshots \ {None} :
            Restore(prev) => dev'.state = BoolV(prev.state = STATE_ON)
       /\ \A v \in RawValues \ Sentinels :
            (TemplateFires("action", v) /\ dev.state \in {BoolV(FALSE), STATE_OFF})
            => dev'.attr_action = ACTION_OFF]_vars

\* C16: the action DRYING occurs only on a dehumidifier, and the device
\* class is the one fixed at construction.
C16_DryingOnlyDehumidifier ==
    /\ dev.attr_device_class = InitDev(config).attr_device_class
    /\ dev.attr_action = ACTION_DRYING => dev.attr_device_class = DEVICE_CLASS_DEHUMIDIFIER

C16_Witness == dev.attr_action = ACTION_DRYING

\* C17: with a set-mode script configured, set_mode(m) runs that script once
\* with m bound to the mode variable and is suspended until the script ends,
\* with or without a mode template; without a script it runs nothing and
\* completes at once.
C17_SetModeScript ==
    [][/\ \A m \in ModeArgs :
            SetMode(m) =>
              IF config.set_mode_action
              THEN /\ task'.calls = <<[kind |-> "script", script |-> "set_mode",
                                       var |-> ATTR_MODE, val |-> m]>>
                   /\ task'.pc = "await"
              ELSE task'.calls = <<>> /\ task'.pc = "done"
       /\ (task.op = "set_mode" /\ task.pc = "await") =>
            /\ task'.calls = task.calls
            /\ task'.pc = "done" => \E r \in AwaitResults : AwaitCompletes(r)]_vars

\* set_mode has run its script to the end on an entity with a mode template.
C17_Witness ==
    /\ "mode" \in config.templates
    /\ task.op = "set_mode"
    /\ task.pc = "done"
    /\ task.result = "ok"
    /\ Len(task.calls) = 1

\* The characters f, a, n in a row somewhere in s.
HasFan(s) == \E i \in 1..Len(s) : i + 2 <= Len(s) /\ s[i] = "f" /\ s[i + 1] = "a" /\ s[i + 2] = "n"

\* The relay call expected of a power command.
ExpectedRelayCalls(service) ==
    IF config.switch_id = None THEN <<>>
    ELSE <<[kind |-> "service",
            domain |-> IF HasFan(config.switch_id.v) THEN FAN_DOMAIN ELSE SWITCH_DOMAIN,
            service |-> service,
            entity_id |-> config.switch_id]>>

\* C18: turn_on / turn_off issue one turn_on / turn_off service call for the
\* configured switch_id, in the fan domain iff the switch_id contains "fan"
\* and in the switch domain otherwise; without a switch_id they issue no call
\* and change is_on only.
C18_RelayRouting ==
    [][/\ TurnOn => /\ task'.calls = ExpectedRelayCalls(SERVICE_TURN_ON)
                    /\ dev' = [dev EXCEPT !.state = BoolV(TRUE)]
       /\ TurnOff => /\ task'.calls = ExpectedRelayCalls(SERVICE_TURN_OFF)
                     /\ dev' = [dev EXCEPT !.state = BoolV(FALSE)]]_vars

\* turn_on of an entity whose switch_id has "fan" after its domain prefix.
C18_Witness ==
    /\ config.switch_id = SwitchFanRelay
    /\ task.op = "turn_on"
    /\ task.calls # <<>>
    /\ task.calls[1].domain = FAN_DOMAIN

\* C19: restoration runs while no template handler is registered, and no
\* more once one is; the registrations are never withdrawn.
C19_RestoreBeforeRegister ==
    [][/\ \A prev \in Snapshots : Restore(prev) => (subscribed = {} /\ subscribed' = {})
       /\ subscribed # {} => (phase = "added" /\ phase' = "added" /\ subscribed' = subscribed)]_vars

\* A restored entity whose current_humidity handler has fired since.
C19_Witness ==
    /\ phase = "added"
    /\ "current_humidity" \in subscribed
    /\ dev.current_temp = IntV(45)
    /\ dev.current_humidity = IntV(95)

\* C20: a command writes the device state only before its await: the end of
\* the awaited call changes no field, and while the command is suspended
\* only template handlers change the device state, so what they wrote is in
\* place when the command completes.
C20_TemplateWinsOverCommand ==
    [][/\ \A r \in AwaitResults : AwaitCompletes(r) => dev' = dev
       /\ (task.pc = "await" /\ dev' # dev) => task' = task]_vars

\* turn_on is suspended on its service call and the state template has
\* turned the device off since.
C20_Witness ==
    /\ task.op = "turn_on"
    /\ task.pc = "await"
    /\ dev.state = BoolV(FALSE)

====
